---- MODULE Spec2Model ----
(***************************************************************************)
(* Account/token lifecycle, mention polling and OAuth handshake of the     *)
(* Twitter mentions backend (app/services/scheduler.py,                    *)
(* app/services/twitter.py, app/api/v1/endpoints/{auth,accounts,messages}).*)
(*                                                                         *)
(* Time is counted in minutes.  The collections of the database are the    *)
(* variables accounts, messages and oauth_states; a document's internal id *)
(* is its position in its collection (uuid4 values are fresh, and find()   *)
(* returns documents in insertion order).  Optional values use None.       *)
(* Every outbound HTTP call is a scheduling point: the platform's answer   *)
(* is drawn from the sets of responses below.  Database calls succeed,     *)
(* except account.save() in poll_mentions under SpecOutage.                *)
(***************************************************************************)
EXTENDS Integers, Sequences, FiniteSets, TLC

VARIABLES
    now,            \* datetime.utcnow()
    accounts,       \* collection "accounts"
    messages,       \* collection "messages"
    oauth_states,   \* collection "oauth_states"
    issued,         \* how many state strings secrets.token_urlsafe has produced
    task,           \* the running fetch task (poll_mentions or fetch_new_messages)
    cb,             \* the running twitter_callback request
    other,          \* a second request running beside them: a manual fetch of one
                    \* account, or a twitter_callback
    cycle,          \* history: what the current/last fetch task selected and touched
    prevFetch,      \* history: the fetch_mentions call that returned last
    consumed,       \* history: states whose callback completed successfully
    last            \* history: what the last step observed

vars ==
    <<now, accounts, messages, oauth_states, issued, task, cb, other, cycle, prevFetch,
      consumed, last>>

----------------------------------------------------------------------------
\* Bounds of the model

MaxTime == 11
MaxPollTime == 5
NumTweets == 2
MaxPage == 2
NumTokens == 2
NumStates == 2
MaxStored == 2

\* Program constants

RefreshMarginMinutes == 5
SweepMarginMinutes == 60
StateWindowMinutes == 10
ErrorMessageCap == 500
MaxRetries == 3
FetchPrefixLen == 26
FetchTupleLen == 30
RefreshFailedLen == 23

None == -1

Min(a, b) == IF a <= b THEN a ELSE b

Tokens == 1..NumTokens
TweetIds == 1..NumTweets
TwitterIds == {1, 2}
Usernames == {1, 2}
ExpiresIns == {10}
BodyLens == {600}
NetErrLens == {0}
PollTickSteps == {5}
DbErrLens == {80}
KeyErrLens == {11}

SyncStatuses == {"active", "paused", "error", "token_expired", "rate_limited"}

----------------------------------------------------------------------------
\* Platform responses

\* POST oauth2/token: a network failure, a non-200 answer, or a 200 answer whose
\* JSON may lack keys (None: the key is absent).
TokenData ==
    [access_token : Tokens \cup {None}, refresh_token : Tokens \cup {None},
     expires_in : ExpiresIns \cup {None}]

NoData == [access_token |-> None, refresh_token |-> None, expires_in |-> None]

TokenResponses ==
    {[kind |-> "net_error", status |-> 0, data |-> NoData],
     [kind |-> "http", status |-> 400, data |-> NoData]}
    \cup {[kind |-> "http", status |-> 200, data |-> d] :
            d \in {x \in TokenData :
                     x.access_token = None
                        => (x.refresh_token = None /\ x.expires_in = None)}}

\* GET users/:id/mentions
Pages == UNION {[1..n -> TweetIds] : n \in 0..MaxPage}

MentionResponses ==
    {[kind |-> "net_error", status |-> 0, tooMany |-> FALSE, len |-> n, page |-> <<>>] :
        n \in NetErrLens}
    \cup {[kind |-> "http", status |-> 429, tooMany |-> TRUE, len |-> n, page |-> <<>>] :
        n \in BodyLens}
    \cup {[kind |-> "http", status |-> 500, tooMany |-> FALSE, len |-> n, page |-> <<>>] :
        n \in BodyLens}
    \cup {[kind |-> "http", status |-> 200, tooMany |-> FALSE, len |-> 0, page |-> p] :
        p \in Pages}

----------------------------------------------------------------------------
\* Documents

\* NewAccount with the expiry taken as a fixed two hours, not as expires_in.
NewAccountFixedExpiry(id, twitter_id, username, token_data, t) ==
    [id |-> id,
     twitter_id |-> twitter_id,
     twitter_username |-> username,
     access_token |-> token_data.access_token,
     refresh_token |-> token_data.refresh_token,
     token_expires_at |-> t + 120,
     is_active |-> TRUE,
     sync_status |-> "active",
     error_message |-> None,
     last_synced_at |-> None,
     total_mentions_tracked |-> 0]

NewAccount(id, twitter_id, username, token_data, t) ==
    [id |-> id,
     twitter_id |-> twitter_id,
     twitter_username |-> username,
     access_token |-> token_data.access_token,
     refresh_token |-> token_data.refresh_token,
     token_expires_at |-> t + token_data.expires_in,
     is_active |-> TRUE,
     sync_status |-> "active",
     error_message |-> None,
     last_synced_at |-> None,
     total_mentions_tracked |-> 0]

\* An account authorized at time t whose first poll, at t too, found no mention.
SyncedAccount(id, twitter_id, token_data, t) ==
    [NewAccount(id, twitter_id, 1, token_data, t) EXCEPT !.last_synced_at = t]

NewMessage(tweet_id, account) ==
    [tweet_id |-> tweet_id, account_id |-> account.id, status |-> "pending"]

\* Document.save(): the whole document replaces the stored one with its id.
Save(accts, account) == [accts EXCEPT ![account.id] = account]

TokenFields(account) ==
    <<account.access_token, account.refresh_token, account.token_expires_at>>

----------------------------------------------------------------------------
\* TwitterService (app/services/twitter.py)

\* What GET users/me can do: answer 200, answer another status, or fail to
\* answer (httpx raises).
VerifyOutcomes == {"ok", "denied", "net_error"}

\* verify_token, the body of its try block: no request once the expiry is
\* reached; otherwise the request, which raises or gives status_code == 200.
VerifyRequest(token_expires_at, t, outcome) ==
    IF t >= token_expires_at
    THEN [ret |-> FALSE, requested |-> FALSE, raised |-> FALSE]
    ELSE IF outcome = "net_error"
         THEN [ret |-> FALSE, requested |-> TRUE, raised |-> TRUE]
         ELSE [ret |-> outcome = "ok", requested |-> TRUE, raised |-> FALSE]

\* VerifyToken without its except clause.
VerifyTokenNoCatch(token_expires_at, t, outcome) ==
    VerifyRequest(token_expires_at, t, outcome)

\* verify_token: the try block, and "except Exception: return False".
VerifyToken(token_expires_at, t, outcome) ==
    LET v == VerifyRequest(token_expires_at, t, outcome) IN
      IF v.raised THEN [v EXCEPT !.ret = FALSE, !.raised = FALSE] ELSE v

\* RefreshToken taking the refresh token of the answer even when it has none.
RefreshTokenNoDefault(account, response, t) ==
    IF response.kind = "net_error" \/ response.status # 200
    THEN [ret |-> FALSE, account |-> account, saved |-> FALSE]
    ELSE LET d == response.data IN
         IF d.access_token = None \/ d.expires_in = None
         THEN [ret |-> FALSE, account |-> account, saved |-> FALSE]
         ELSE [ret |-> TRUE,
               account |-> [account EXCEPT !.access_token = d.access_token,
                                           !.refresh_token = d.refresh_token,
                                           !.token_expires_at = t + d.expires_in,
                                           !.sync_status = "active",
                                           !.error_message = None],
               saved |-> TRUE]

\* refresh_token: the in-memory document after the call, what it returned, and
\* whether it saved the document.  A KeyError on token_data[...] is caught by the
\* method's except clause after the assignments that precede it.
RefreshToken(account, response, t) ==
    IF response.kind = "net_error" \/ response.status # 200
    THEN [ret |-> FALSE, account |-> account, saved |-> FALSE]
    ELSE LET d == response.data IN
         IF d.access_token = None
         THEN [ret |-> FALSE, account |-> account, saved |-> FALSE]
         ELSE LET a1 == [account EXCEPT
                            !.access_token = d.access_token,
                            !.refresh_token =
                                IF d.refresh_token = None THEN @ ELSE d.refresh_token]
              IN  IF d.expires_in = None
                  THEN [ret |-> FALSE, account |-> a1, saved |-> FALSE]
                  ELSE [ret |-> TRUE,
                        account |-> [a1 EXCEPT !.token_expires_at = t + d.expires_in,
                                               !.sync_status = "active",
                                               !.error_message = None],
                        saved |-> TRUE]

\* MessageExists with the lookup finding nothing.
MessageExistsNever(msgs, tweet_id) == FALSE

\* Message.find_one(Message.tweet_id == tweet_id)
MessageExists(msgs, tweet_id) ==
    \E k \in 1..Len(msgs) : msgs[k].tweet_id = tweet_id

\* The loop over mentions_data['data']: the collection and new_messages after it.
RECURSIVE StoreMentions(_, _, _, _, _)
StoreMentions(page, i, msgs, new, account) ==
    IF i > Len(page) THEN [messages |-> msgs, new |-> new]
    ELSE IF MessageExists(msgs, page[i])
         THEN StoreMentions(page, i + 1, msgs, new, account)
         ELSE StoreMentions(page, i + 1, Append(msgs, NewMessage(page[i], account)),
                            Append(new, page[i]), account)

\* StoreMentionsUntil undoing its inserts when it raises.
RECURSIVE StoreMentionsUntilRollback(_, _, _, _, _, _)
StoreMentionsUntilRollback(page, i, msgs, new, account, bad) ==
    IF i > Len(page) THEN [messages |-> msgs, new |-> new, raised |-> FALSE]
    ELSE IF MessageExists(msgs, page[i])
         THEN StoreMentionsUntilRollback(page, i + 1, msgs, new, account, bad)
         ELSE IF i = bad
              THEN [messages |-> SubSeq(msgs, 1, Len(msgs) - Len(new)), new |-> new,
                    raised |-> TRUE]
              ELSE StoreMentionsUntilRollback(page, i + 1,
                                              Append(msgs, NewMessage(page[i], account)),
                                              Append(new, page[i]), account, bad)

\* twitter.py 111-149 over a page whose mention number bad cannot be made into
\* a Message (a key is missing, created_at does not parse): the loop raises
\* when it reaches that mention, unless the mention is stored already, in
\* which case it is skipped before its fields are read.
RECURSIVE StoreMentionsUntil(_, _, _, _, _, _)
StoreMentionsUntil(page, i, msgs, new, account, bad) ==
    IF i > Len(page) THEN [messages |-> msgs, new |-> new, raised |-> FALSE]
    ELSE IF MessageExists(msgs, page[i])
         THEN StoreMentionsUntil(page, i + 1, msgs, new, account, bad)
         ELSE IF i = bad
              THEN [messages |-> msgs, new |-> new, raised |-> TRUE]
              ELSE StoreMentionsUntil(page, i + 1,
                                      Append(msgs, NewMessage(page[i], account)),
                                      Append(new, page[i]), account, bad)

\* CountMentions counting every mention of the page.
CountMentionsPage(account, page, new) ==
    [account EXCEPT !.total_mentions_tracked = @ + Len(page)]

\* CountMentions with = for +=.
CountMentionsAssign(account, page, new) ==
    [account EXCEPT !.total_mentions_tracked = Len(new)]

\* account.total_mentions_tracked += len(new_messages)
CountMentions(account, page, new) ==
    [account EXCEPT !.total_mentions_tracked = @ + Len(new)]

\* The exceptions fetch_mentions raises, as the length of str(e) and whether it
\* holds "Too Many Requests".
WrapFetchError(len, tooMany) == [len |-> FetchPrefixLen + len, tooMany |-> tooMany]

RefreshFailedError == WrapFetchError(RefreshFailedLen, FALSE)

ResponseError(resp) ==
    IF resp.kind = "net_error" THEN WrapFetchError(resp.len, FALSE)
    ELSE WrapFetchError(FetchTupleLen + resp.len, resp.tooMany)

----------------------------------------------------------------------------
\* SchedulerService.poll_mentions (app/services/scheduler.py)

\* ActiveAccounts without the is_active filter.
AllAccounts(accts) == accts

\* ActiveAccounts leaving out the accounts whose last poll or refresh failed.
ActiveAccountsHealthy(accts) ==
    SelectSeq(accts, LAMBDA a : a.is_active /\ a.sync_status = "active")

ActiveAccounts(accts) == SelectSeq(accts, LAMBDA a : a.is_active)

RefreshDue(account, t) == account.token_expires_at <= t + RefreshMarginMinutes

\* str(e)[:500]
Truncate(len) == Min(len, ErrorMessageCap)

\* "Too Many Requests" in str(e)
IsRateLimit(exc) == exc.tooMany

\* PollExcept without the break.
PollExceptNoBreak(account, exc) ==
    LET a1 == [account EXCEPT !.sync_status = "error",
                              !.error_message = Truncate(exc.len)]
    IN  IF IsRateLimit(exc)
        THEN [account |-> [a1 EXCEPT !.sync_status = "rate_limited"], stop |-> FALSE]
        ELSE [account |-> a1, stop |-> FALSE]

\* PollExcept breaking out of the loop on every exception.
PollExceptStopAll(account, exc) ==
    LET a1 == [account EXCEPT !.sync_status = "error",
                              !.error_message = Truncate(exc.len)]
    IN  IF IsRateLimit(exc)
        THEN [account |-> [a1 EXCEPT !.sync_status = "rate_limited"], stop |-> TRUE]
        ELSE [account |-> a1, stop |-> TRUE]

\* The except clause of the account loop: the document it saves last, and
\* whether it breaks out of the loop.
PollExcept(account, exc) ==
    LET a1 == [account EXCEPT !.sync_status = "error",
                              !.error_message = Truncate(exc.len)]
    IN  IF IsRateLimit(exc)
        THEN [account |-> [a1 EXCEPT !.sync_status = "rate_limited"], stop |-> TRUE]
        ELSE [account |-> a1, stop |-> FALSE]

\* PollSuccess leaving last_synced_at as it was.
PollSuccessNoClock(account, t) ==
    [account EXCEPT !.sync_status = "active", !.error_message = None]

\* After a fetch succeeded: last_synced_at, sync_status, error_message and the
\* save.
PollSuccess(account, t) ==
    [account EXCEPT !.last_synced_at = t, !.sync_status = "active",
                    !.error_message = None]

----------------------------------------------------------------------------
\* The fetch task: the account loop of poll_mentions or of fetch_new_messages,
\* with one step per HTTP request of the account being processed.

IdleTask == [kind |-> "idle", pc |-> "idle", accts |-> <<>>, idx |-> 0, refFail |-> FALSE]

IdleCallback == [pc |-> "idle", state |-> 0, stale |-> FALSE, used |-> FALSE, data |-> NoData]

IdleOther ==
    [kind |-> "idle", pc |-> "idle", accts |-> <<>>, page |-> <<>>, i |-> 0,
     exists |-> FALSE, new |-> <<>>, state |-> 0, data |-> NoData]

NoCycle == [kind |-> "idle", order |-> <<>>, inactive |-> {}, touched |-> {}]

NoFetch == [id |-> 0, page |-> <<>>, broke |-> FALSE]

NoLast ==
    [op |-> "none", id |-> 0, pos |-> 0,
     refresh |-> "none", expired |-> FALSE, memSame |-> TRUE, dbSame |-> TRUE,
     fetch |-> "none", page |-> <<>>, new |-> <<>>, repeat |-> FALSE,
     iter |-> "none", refFail |-> FALSE, got |-> FALSE, len |-> 0,
     result |-> "none", state |-> 0, stale |-> FALSE, used |-> FALSE,
     exchanged |-> FALSE, unseen |-> FALSE, data |-> NoData, twitter_id |-> 0,
     was |-> "none", verify |-> "none", valid |-> FALSE, raised |-> FALSE,
     retry |-> FALSE, username |-> 0, token |-> "none", user |-> "none", requests |-> 0]

\* The account being processed: the documents the loop is done with are dropped.
Current == Head(task.accts)

Ids(accts) == [i \in 1..Len(accts) |-> accts[i].id]

Touch(id) == [cycle EXCEPT !.touched = @ \cup {id}]

\* The step after the loop body: the next account, or the end of the task.
Advance(stop) ==
    IF stop \/ Len(task.accts) = 1 THEN IdleTask
    ELSE [task EXCEPT !.accts = Tail(@), !.idx = @ + 1,
                      !.pc = IF task.kind = "poll" THEN "check_refresh"
                             ELSE IF task.kind = "sweep" THEN "sweep_refresh"
                             ELSE "verify",
                      !.refFail = FALSE]

\* What a refresh_token call is observed to do.
RefreshSeen(account, response, res) ==
    [NoLast EXCEPT
        !.op = "refresh", !.id = account.id, !.pos = task.idx,
        !.data = response.data, !.was = accounts[account.id].sync_status,
        !.refresh = IF res.ret THEN "ok" ELSE "failed",
        !.expired = now >= account.token_expires_at,
        !.memSame = TokenFields(res.account) = TokenFields(account),
        !.dbSame = ~res.saved]

\* A failed refresh of an expired token, with no refresh succeeding after it.
RefFail(account, res) ==
    IF res.ret THEN FALSE
    ELSE task.refFail \/ now >= account.token_expires_at

PollStart ==
    /\ task.kind = "idle"
    /\ LET active == ActiveAccounts(accounts) IN
        /\ task' = IF active = <<>> THEN IdleTask
                   ELSE [kind |-> "poll", pc |-> "check_refresh", accts |-> active,
                         idx |-> 1, refFail |-> FALSE]
        /\ cycle' = [kind |-> "poll", order |-> Ids(active),
                     inactive |-> {i \in 1..Len(accounts) : ~accounts[i].is_active},
                     touched |-> {}]
    /\ prevFetch' = NoFetch
    /\ last' = NoLast
    /\ UNCHANGED <<other, now, accounts, messages, oauth_states, issued, cb, consumed>>

\* scheduler.py 66-67: the refresh before the fetch; its result is not read.
PollRefresh(responses) ==
    /\ task.kind = "poll" /\ task.pc = "check_refresh"
    /\ IF RefreshDue(Current, now)
       THEN \E response \in responses :
              LET res == RefreshToken(Current, response, now) IN
                /\ task' = [task EXCEPT !.accts[1] = res.account,
                                        !.pc = "verify",
                                        !.refFail = RefFail(Current, res)]
                /\ accounts' = IF res.saved THEN Save(accounts, res.account) ELSE accounts
                /\ cycle' = Touch(Current.id)
                /\ last' = RefreshSeen(Current, response, res)
       ELSE /\ task' = [task EXCEPT !.pc = "verify"]
            /\ last' = NoLast
            /\ UNCHANGED <<other, accounts, cycle>>
    /\ UNCHANGED <<other, now, messages, oauth_states, issued, cb, prevFetch, consumed>>

\* The end of one pass of the account loop, fetch_mentions having raised exc.
FetchRaisedWith(account, exc, seen, msgs, fetch) ==
    /\ IF task.kind = "poll"
       THEN LET h == PollExcept(account, exc) IN
              /\ accounts' = Save(accounts, h.account)
              /\ task' = Advance(h.stop)
       ELSE /\ accounts' = accounts
            /\ task' = Advance(FALSE)
    /\ cycle' = Touch(account.id)
    /\ prevFetch' = fetch
    /\ messages' = msgs
    /\ last' = [seen EXCEPT !.op = "iter", !.id = account.id, !.pos = task.idx,
                            !.fetch = "raised",
                            !.iter = IF exc.tooMany THEN "rate_limited" ELSE "error",
                            !.len = exc.len]
    /\ UNCHANGED <<other, now, oauth_states, issued, cb, consumed>>

\* The same, nothing having been inserted by the call.
FetchRaised(account, exc, seen) ==
    FetchRaisedWith(account, exc, seen, messages, NoFetch)

\* twitter.py 79: verify_token
FetchVerify(outcomes) ==
    /\ task.kind # "idle" /\ task.pc = "verify"
    /\ \E outcome \in outcomes :
         LET v == VerifyToken(Current.token_expires_at, now, outcome) IN
           /\ task' = [task EXCEPT !.pc = IF v.ret THEN "get" ELSE "fetch_refresh"]
           /\ last' = [NoLast EXCEPT
                          !.op = "verify", !.id = Current.id, !.pos = task.idx,
                          !.expired = now >= Current.token_expires_at,
                          !.verify = IF v.requested THEN outcome ELSE "none",
                          !.valid = v.ret, !.raised = v.raised]
    /\ cycle' = Touch(Current.id)
    /\ UNCHANGED <<other, now, accounts, messages, oauth_states, issued, cb, prevFetch, consumed>>

\* twitter.py 80-81: refresh_token, and the exception when it returns False
FetchRefresh(responses) ==
    /\ task.kind # "idle" /\ task.pc = "fetch_refresh"
    /\ \E response \in responses :
         LET res == RefreshToken(Current, response, now) IN
           IF res.ret
           THEN /\ task' = [task EXCEPT !.accts[1] = res.account, !.pc = "get",
                                        !.refFail = FALSE]
                /\ accounts' = Save(accounts, res.account)
                /\ cycle' = Touch(Current.id)
                /\ last' = RefreshSeen(Current, response, res)
                /\ UNCHANGED <<other, now, messages, oauth_states, issued, cb, prevFetch, consumed>>
           ELSE FetchRaised(res.account, RefreshFailedError,
                            [RefreshSeen(Current, response, res) EXCEPT
                                !.refFail = RefFail(Current, res)])

\* twitter.py 87-155: the mentions request, the loop over the page, the counter
\* and the save; then (poll_mentions) scheduler.py 75-78.
FetchGet(responses) ==
    /\ task.kind # "idle" /\ task.pc = "get"
    /\ \E resp \in responses :
         IF resp.kind = "net_error" \/ resp.status # 200
         THEN FetchRaised(Current, ResponseError(resp),
                          [NoLast EXCEPT !.got = TRUE, !.refFail = task.refFail])
         ELSE LET r == StoreMentions(resp.page, 1, messages, <<>>, Current)
                  a1 == CountMentions(Current, resp.page, r.new)
                  a2 == IF task.kind = "poll" THEN PollSuccess(a1, now) ELSE a1
              IN  /\ messages' = r.messages
                  /\ accounts' = Save(accounts, a2)
                  /\ task' = Advance(FALSE)
                  /\ cycle' = Touch(Current.id)
                  /\ prevFetch' = IF task.kind = "manual_one"
                                   THEN [id |-> Current.id, page |-> resp.page,
                                         broke |-> FALSE]
                                   ELSE NoFetch
                  /\ last' = [NoLast EXCEPT
                                !.op = "iter", !.id = Current.id, !.pos = task.idx,
                                !.fetch = "ok", !.page = resp.page, !.new = r.new,
                                !.repeat = (prevFetch = [id |-> Current.id,
                                                         page |-> resp.page,
                                                         broke |-> FALSE]),
                                !.retry = (prevFetch = [id |-> Current.id,
                                                        page |-> resp.page,
                                                        broke |-> TRUE]),
                                !.iter = "ok", !.got = TRUE, !.refFail = task.refFail,
                                !.was = accounts[Current.id].sync_status]
                  /\ UNCHANGED <<other, now, oauth_states, issued, cb, consumed>>

\* twitter.py 103-158: the mentions request answered 200 with a page that the
\* loop cannot get through; what it inserted stays, the counter lines 151-152
\* are not reached, and the error leaves as "Failed to fetch mentions: ...".
FetchGetBroken(responses) ==
    /\ task.kind # "idle" /\ task.pc = "get"
    /\ \E resp \in responses, len \in KeyErrLens :
         /\ resp.kind = "http" /\ resp.status = 200
         /\ \E bad \in 1..Len(resp.page) :
              LET r == StoreMentionsUntil(resp.page, 1, messages, <<>>, Current, bad) IN
                /\ r.raised
                /\ FetchRaisedWith(Current, WrapFetchError(len, FALSE),
                                   [NoLast EXCEPT !.got = TRUE, !.refFail = task.refFail,
                                                  !.page = resp.page, !.new = r.new],
                                   r.messages,
                                   IF task.kind = "manual_one"
                                   THEN [id |-> Current.id, page |-> resp.page,
                                         broke |-> TRUE]
                                   ELSE NoFetch)

\* The database failing under poll_mentions.  Pass "get" with account.save()
\* of scheduler.py 78 raising an error of len characters after fetch_mentions
\* returned: the handler at 80-86 marks the in-memory document, which already
\* holds the new last_synced_at, and saves it.  That save succeeds (again: FALSE)
\* or raises too (again: TRUE); an exception raised inside the handler leaves
\* the loop and is logged at 95-96.  When fetch_mentions raised, the save of
\* line 86 is the first one to fail.
PollSaveRaises(responses) ==
    /\ task.kind = "poll" /\ task.pc = "get"
    /\ \E resp \in responses, len \in DbErrLens, again \in BOOLEAN :
         LET ok == resp.kind # "net_error" /\ resp.status = 200
             r == IF ok THEN StoreMentions(resp.page, 1, messages, <<>>, Current)
                  ELSE [messages |-> messages, new |-> <<>>]
             a1 == IF ok THEN CountMentions(Current, resp.page, r.new) ELSE Current
             h == PollExcept(PollSuccess(a1, now), [len |-> len, tooMany |-> FALSE])
             lost == ~ok \/ again
         IN  /\ messages' = r.messages
             /\ accounts' = IF ~ok THEN accounts
                             ELSE IF again THEN Save(accounts, a1)
                             ELSE Save(accounts, h.account)
             /\ task' = IF lost THEN IdleTask ELSE Advance(h.stop)
             /\ last' = [NoLast EXCEPT
                            !.op = "iter", !.id = Current.id, !.pos = task.idx,
                            !.fetch = IF ok THEN "ok" ELSE "raised",
                            !.iter = IF lost THEN "lost" ELSE "error",
                            !.got = TRUE, !.len = len,
                            !.was = accounts[Current.id].sync_status]
    /\ cycle' = Touch(Current.id)
    /\ prevFetch' = NoFetch
    /\ UNCHANGED <<other, now, oauth_states, issued, cb, consumed>>

----------------------------------------------------------------------------
\* SchedulerService.refresh_tokens (app/services/scheduler.py): the sweep over
\* the active accounts, one step per account.

SweepDue(account, t) == account.token_expires_at <= t + SweepMarginMinutes

\* scheduler.py 117-124: what the sweep records after refresh_token returned
SweepRecord(account, success) ==
    IF success
    THEN [account EXCEPT !.sync_status = "active", !.error_message = None]
    ELSE [account EXCEPT !.sync_status = "token_expired",
                         !.error_message = RefreshFailedLen]

SweepStart ==
    /\ task.kind = "idle"
    /\ LET active == ActiveAccounts(accounts) IN
        /\ task' = IF active = <<>> THEN IdleTask
                   ELSE [kind |-> "sweep", pc |-> "sweep_refresh", accts |-> active,
                         idx |-> 1, refFail |-> FALSE]
        /\ cycle' = [kind |-> "sweep", order |-> Ids(active),
                     inactive |-> {i \in 1..Len(accounts) : ~accounts[i].is_active},
                     touched |-> {}]
    /\ prevFetch' = NoFetch
    /\ last' = NoLast
    /\ UNCHANGED <<other, now, accounts, messages, oauth_states, issued, cb, consumed>>

\* scheduler.py 115-125: the refresh of an account whose token ends within the
\* hour, and the save of what the sweep recorded
SweepRefresh(responses) ==
    /\ task.kind = "sweep" /\ task.pc = "sweep_refresh"
    /\ IF SweepDue(Current, now)
       THEN \E response \in responses :
              LET res == RefreshToken(Current, response, now) IN
                /\ accounts' = Save(accounts, SweepRecord(res.account, res.ret))
                /\ cycle' = Touch(Current.id)
                /\ last' = [RefreshSeen(Current, response, res) EXCEPT !.op = "sweep"]
       ELSE /\ last' = [NoLast EXCEPT !.op = "sweep", !.id = Current.id,
                                      !.pos = task.idx]
            /\ UNCHANGED <<other, accounts, cycle>>
    /\ task' = Advance(FALSE)
    /\ UNCHANGED <<other, now, messages, oauth_states, issued, cb, prevFetch, consumed>>

----------------------------------------------------------------------------
\* fetch_new_messages (app/api/v1/endpoints/messages.py)

FetchNewMessages ==
    /\ task.kind = "idle"
    /\ \/ \E id \in 1..Len(accounts) :
            /\ task' = [kind |-> "manual_one", pc |-> "verify",
                        accts |-> <<accounts[id]>>, idx |-> 1, refFail |-> FALSE]
            /\ cycle' = [kind |-> "manual_one", order |-> <<id>>,
                         inactive |-> {i \in 1..Len(accounts) : ~accounts[i].is_active},
                         touched |-> {}]
            /\ prevFetch' = prevFetch
       \/ LET active == ActiveAccounts(accounts) IN
            /\ task' = IF active = <<>> THEN IdleTask
                       ELSE [kind |-> "manual_all", pc |-> "verify", accts |-> active,
                             idx |-> 1, refFail |-> FALSE]
            /\ cycle' = [kind |-> "manual_all", order |-> Ids(active),
                         inactive |-> {i \in 1..Len(accounts) : ~accounts[i].is_active},
                         touched |-> {}]
            /\ prevFetch' = NoFetch
    /\ last' = NoLast
    /\ UNCHANGED <<other, now, accounts, messages, oauth_states, issued, cb, consumed>>

----------------------------------------------------------------------------
\* update_account_status (app/api/v1/endpoints/accounts.py)

\* AccountStatusUpdate: both fields are optional.
StatusUpdates ==
    [has_is_active : BOOLEAN, is_active : BOOLEAN, sync_status : SyncStatuses \cup {"none"}]

\* Pausing and resuming: is_active alone.
PauseUpdates ==
    {u \in StatusUpdates : u.has_is_active /\ u.sync_status = "none"}

ApplyStatusUpdate(account, update) ==
    LET a1 == IF ~update.has_is_active THEN account
              ELSE [account EXCEPT
                      !.is_active = update.is_active,
                      !.sync_status =
                          IF update.is_active /\ @ \in {"paused", "error"} THEN "active"
                          ELSE IF ~update.is_active THEN "paused"
                          ELSE @]
    IN  IF update.sync_status # "none"
        THEN [a1 EXCEPT !.sync_status = update.sync_status]
        ELSE a1

UpdateAccountStatus(updates) ==
    /\ task.kind = "idle"
    /\ \E id \in 1..Len(accounts), update \in updates :
         accounts' = Save(accounts, ApplyStatusUpdate(accounts[id], update))
    /\ cycle' = NoCycle /\ prevFetch' = NoFetch /\ last' = NoLast
    /\ UNCHANGED <<other, now, messages, oauth_states, issued, task, cb, consumed>>

----------------------------------------------------------------------------
\* A second fetch_new_messages request with an account_id (messages.py 226-236),
\* running beside the task: each await of fetch_mentions is a step.

\* messages.py 228, twitter.py 79: the account is read and its token verifies.
OtherFetchStart ==
    /\ other.kind = "idle"
    /\ Len(messages) < MaxStored
    /\ \E id \in 1..Len(accounts) :
         /\ VerifyToken(accounts[id].token_expires_at, now, "ok").ret
         /\ other' = [IdleOther EXCEPT !.kind = "fetch", !.pc = "get",
                                       !.accts = <<accounts[id]>>]
    /\ last' = NoLast
    /\ UNCHANGED <<now, accounts, messages, oauth_states, issued, task, cb, cycle,
                   prevFetch, consumed>>

\* twitter.py 87-109: the mentions request; a failure ends the request (400).
OtherFetchGet(responses) ==
    /\ other.kind = "fetch" /\ other.pc = "get"
    /\ \E resp \in responses :
         other' = IF resp.kind = "net_error" \/ resp.status # 200 THEN IdleOther
                  ELSE [other EXCEPT !.page = resp.page, !.i = 1,
                                     !.pc = IF resp.page = <<>> THEN "save" ELSE "find"]
    /\ last' = NoLast
    /\ UNCHANGED <<now, accounts, messages, oauth_states, issued, task, cb, cycle,
                   prevFetch, consumed>>

\* twitter.py 114: Message.find_one for mention i of the page
OtherFetchFind ==
    /\ other.kind = "fetch" /\ other.pc = "find"
    /\ other' = [other EXCEPT !.exists = MessageExists(messages, other.page[other.i]),
                              !.pc = "insert"]
    /\ last' = NoLast
    /\ UNCHANGED <<now, accounts, messages, oauth_states, issued, task, cb, cycle,
                   prevFetch, consumed>>

\* twitter.py 116-149: message.insert() if the lookup found nothing
OtherFetchInsert ==
    /\ other.kind = "fetch" /\ other.pc = "insert"
    /\ LET id == other.page[other.i] IN
         /\ messages' = IF other.exists THEN messages
                         ELSE Append(messages, NewMessage(id, other.accts[1]))
         /\ other' = [other EXCEPT
                         !.new = IF other.exists THEN @ ELSE Append(@, id),
                         !.exists = FALSE,
                         !.i = @ + 1,
                         !.pc = IF other.i = Len(other.page) THEN "save" ELSE "find"]
    /\ last' = NoLast
    /\ UNCHANGED <<now, accounts, oauth_states, issued, task, cb, cycle, prevFetch,
                   consumed>>

\* twitter.py 151-153: the counter and account.save()
OtherFetchSave ==
    /\ other.kind = "fetch" /\ other.pc = "save"
    /\ accounts' = Save(accounts, CountMentions(other.accts[1], other.page, other.new))
    /\ other' = IdleOther
    /\ last' = [NoLast EXCEPT !.op = "other_fetch", !.id = other.accts[1].id,
                              !.page = other.page, !.new = other.new]
    /\ UNCHANGED <<now, messages, oauth_states, issued, task, cb, cycle, prevFetch,
                   consumed>>

\* update_account_status answered while a poll cycle, a sweep or a manual fetch
\* is waiting for the platform.
UpdateAccountStatusMidTask(updates) ==
    /\ task.kind # "idle"
    /\ \E id \in 1..Len(accounts), update \in updates :
         accounts' = Save(accounts, ApplyStatusUpdate(accounts[id], update))
    /\ last' = NoLast
    /\ UNCHANGED <<other, now, messages, oauth_states, issued, task, cb, cycle, prevFetch,
                   consumed>>

\* update_message / reply_to_message (app/api/v1/endpoints/messages.py)
UpdateMessage ==
    /\ task.kind = "idle"
    /\ \E k \in 1..Len(messages) :
         /\ messages[k].status = "pending"
         /\ messages' = [messages EXCEPT ![k].status = "replied"]
    /\ cycle' = NoCycle /\ prevFetch' = NoFetch /\ last' = NoLast
    /\ UNCHANGED <<other, now, accounts, oauth_states, issued, task, cb, consumed>>

Tick(steps, max) ==
    /\ task.kind = "idle" /\ cb.pc = "idle"
    /\ \E d \in steps : now + d <= max /\ now' = now + d
    /\ cycle' = NoCycle /\ last' = NoLast
    /\ UNCHANGED <<other, accounts, messages, oauth_states, issued, task, cb, prevFetch, consumed>>

----------------------------------------------------------------------------
\* twitter_authorize and twitter_callback (app/api/v1/endpoints/auth.py)

\* secrets.token_urlsafe(16) gives a string never produced before.
TwitterAuthorize ==
    /\ task.kind = "idle" /\ cb.pc = "idle"
    /\ issued < NumStates
    /\ issued' = issued + 1
    /\ oauth_states' = oauth_states \cup {[state |-> issued + 1, created_at |-> now]}
    /\ cycle' = NoCycle /\ last' = NoLast
    /\ UNCHANGED <<other, now, accounts, messages, task, cb, prevFetch, consumed>>

\* StateValid with >= for >.
StateValidInclusive(rec, t) == rec.created_at >= t - StateWindowMinutes

\* OAuthState.created_at > datetime.utcnow() - timedelta(minutes=10)
StateValid(rec, t) == rec.created_at > t - StateWindowMinutes

\* OAuthState.find_one(OAuthState.state == state, <created_at in the window>)
FindState(states, state, t) ==
    {rec \in states : rec.state = state /\ StateValid(rec, t)}

\* DeleteState deleting nothing.
DeleteStateNothing(states, state) == states

\* oauth_state.delete()
DeleteState(states, state) == {rec \in states : rec.state # state}

CallbackSeen(state, result) ==
    [NoLast EXCEPT
        !.op = "callback", !.result = result, !.state = state,
        !.stale = \E rec \in oauth_states :
                     rec.state = state /\ now - rec.created_at >= StateWindowMinutes,
        !.used = \E rec \in consumed : rec.state = state]

\* auth.py 93-102: the lookup of the state
CallbackStart ==
    /\ task.kind = "idle" /\ cb.pc = "idle"
    /\ \E state \in 1..NumStates :
         IF FindState(oauth_states, state, now) = {}
         THEN /\ cb' = IdleCallback
              /\ last' = CallbackSeen(state, "invalid_state")
         ELSE /\ cb' = [pc |-> "exchange", state |-> state,
                        stale |-> CallbackSeen(state, "accepted").stale,
                        used |-> CallbackSeen(state, "accepted").used,
                        data |-> NoData]
              /\ last' = CallbackSeen(state, "accepted")
    /\ cycle' = NoCycle
    /\ UNCHANGED <<other, now, accounts, messages, oauth_states, issued, task, prevFetch, consumed>>

\* auth.py 214-219: whatever was raised leaves the handler as a 400 answer.
CallbackFailed(seen) ==
    /\ cb' = IdleCallback
    /\ last' = [seen EXCEPT !.op = "callback", !.result = "failed", !.state = cb.state,
                            !.stale = cb.stale, !.used = cb.used, !.exchanged = TRUE]
    /\ UNCHANGED <<other, now, accounts, messages, oauth_states, issued, task, cycle, prevFetch,
                   consumed>>

\* How the token request ended.
TokenOutcome(response) ==
    IF response.kind = "net_error" THEN "net_error"
    ELSE IF response.status # 200 THEN "refused" ELSE "ok"

\* ExchangeFailed looking at the request only, not at the status of the answer.
ExchangeFailedNoStatus(response) ==
    \/ response.kind = "net_error"
    \/ (response.status = 200 /\ response.data.access_token = None)

\* auth.py 119-143: client.post raises, the status is not 200, or
\* token_data['access_token'] raises KeyError.
ExchangeFailed(response) ==
    \/ response.kind = "net_error"
    \/ response.status # 200
    \/ response.data.access_token = None

\* auth.py 119-143: the token request; token_data['access_token'] is read first
CallbackExchange(responses) ==
    /\ cb.pc = "exchange"
    /\ \E response \in responses :
         IF ExchangeFailed(response)
         THEN CallbackFailed([NoLast EXCEPT !.token = TokenOutcome(response)])
         ELSE /\ cb' = [cb EXCEPT !.pc = "user_info", !.data = response.data]
              /\ last' = [NoLast EXCEPT !.op = "callback", !.result = "exchanged",
                                        !.state = cb.state, !.stale = cb.stale,
                                        !.used = cb.used, !.exchanged = TRUE,
                                        !.token = TokenOutcome(response)]
              /\ UNCHANGED <<other, now, accounts, messages, oauth_states, issued, task, cycle,
                             prevFetch, consumed>>

AttemptOutcomes ==
    {[kind |-> "exception", status |-> 0]}
    \cup {[kind |-> "response", status |-> c] : c \in {200, 401, 429}}

\* get_user_info_with_retry: what it returns or raises, the answer to request
\* number attempt + 1 being outcomes[attempt + 1].
RECURSIVE GetUserInfoWithRetry(_, _)
GetUserInfoWithRetry(outcomes, attempt) ==
    IF attempt >= MaxRetries THEN [kind |-> "nothing", status |-> 0, requests |-> attempt]
    ELSE LET o == outcomes[attempt + 1] IN
         IF o.kind = "exception"
         THEN IF attempt = MaxRetries - 1
              THEN [kind |-> "raise", status |-> 0, requests |-> attempt + 1]
              ELSE GetUserInfoWithRetry(outcomes, attempt + 1)
         ELSE IF o.status = 429
              THEN GetUserInfoWithRetry(outcomes, attempt + 1)
              ELSE [kind |-> "response", status |-> o.status, requests |-> attempt + 1]

\* Reauthorize keeping the stored username.
ReauthorizeKeepName(account, username, token_data, t) ==
    [account EXCEPT
        !.access_token = token_data.access_token,
        !.refresh_token = token_data.refresh_token,
        !.token_expires_at = t + token_data.expires_in,
        !.sync_status = "active",
        !.error_message = None]

\* Every way get_user_info_with_retry can end, over the answers to its requests.
UserInfoResults ==
    {GetUserInfoWithRetry(outcomes, 0) : outcomes \in [1..MaxRetries -> AttemptOutcomes]}

\* auth.py 185-197: the account found by twitter_id, reauthorized
Reauthorize(account, username, token_data, t) ==
    [account EXCEPT
        !.access_token = token_data.access_token,
        !.refresh_token = token_data.refresh_token,
        !.token_expires_at = t + token_data.expires_in,
        !.twitter_username = username,
        !.sync_status = "active",
        !.error_message = None]

\* Account(...) validates its fields: access_token and refresh_token are str.
AccountValid(token_data) ==
    token_data.access_token # None /\ token_data.refresh_token # None

\* auth.py 143-212: the user request, the account and the deletion of the state
CallbackUserInfo(usernames) ==
    /\ cb.pc = "user_info"
    /\ \E user_response \in UserInfoResults, twitter_id \in TwitterIds,
          username \in usernames :
         LET found == {i \in 1..Len(accounts) : accounts[i].twitter_id = twitter_id}
             seen == [NoLast EXCEPT
                        !.op = "callback", !.result = "ok", !.state = cb.state,
                        !.stale = cb.stale, !.used = cb.used, !.exchanged = TRUE,
                        !.unseen = \A i \in 1..Len(accounts) :
                                      accounts[i].twitter_id # twitter_id,
                        !.data = cb.data, !.twitter_id = twitter_id,
                        !.username = username, !.token = "ok",
                        !.user = user_response.kind,
                        !.requests = user_response.requests]
         IN  IF user_response.kind # "response" \/ user_response.status # 200
                \/ cb.data.expires_in = None
                \/ (found = {} /\ ~AccountValid(cb.data))
             THEN CallbackFailed([NoLast EXCEPT !.token = "ok",
                                                !.user = user_response.kind,
                                                !.requests = user_response.requests])
             ELSE /\ accounts' =
                        IF found = {}
                        THEN Append(accounts,
                                    NewAccount(Len(accounts) + 1, twitter_id, username, cb.data, now))
                        ELSE LET id == CHOOSE i \in found : TRUE IN
                             Save(accounts, Reauthorize(accounts[id], username, cb.data, now))
                  /\ oauth_states' = DeleteState(oauth_states, cb.state)
                  /\ consumed' = consumed \cup
                                   {rec \in oauth_states : rec.state = cb.state}
                  /\ cb' = IdleCallback
                  /\ last' = [seen EXCEPT
                                !.id = IF found = {} THEN Len(accounts) + 1
                                       ELSE CHOOSE i \in found : TRUE]
                  /\ UNCHANGED <<other, now, messages, issued, task, cycle, prevFetch>>

----------------------------------------------------------------------------
\* A second twitter_callback request running beside the first one.

\* auth.py 93-102: the lookup of the state (a rejected lookup changes nothing)
OtherCallbackStart ==
    /\ other.kind = "idle"
    /\ \E state \in 1..NumStates :
         /\ FindState(oauth_states, state, now) # {}
         /\ other' = [IdleOther EXCEPT !.kind = "callback", !.pc = "exchange",
                                       !.state = state]
    /\ last' = NoLast
    /\ UNCHANGED <<now, accounts, messages, oauth_states, issued, task, cb, cycle,
                   prevFetch, consumed>>

\* auth.py 119-143: the token request
OtherCallbackExchange(responses) ==
    /\ other.kind = "callback" /\ other.pc = "exchange"
    /\ \E response \in responses :
         other' = IF ExchangeFailed(response) THEN IdleOther
                  ELSE [other EXCEPT !.pc = "user_info", !.data = response.data]
    /\ last' = NoLast
    /\ UNCHANGED <<now, accounts, messages, oauth_states, issued, task, cb, cycle,
                   prevFetch, consumed>>

\* auth.py 143-212: the user request, the account and the deletion of the
\* state; deleting a document that is gone deletes nothing and raises nothing.
OtherCallbackUserInfo(usernames) ==
    /\ other.kind = "callback" /\ other.pc = "user_info"
    /\ \E user_response \in UserInfoResults, twitter_id \in TwitterIds,
          username \in usernames :
         LET found == {i \in 1..Len(accounts) : accounts[i].twitter_id = twitter_id}
             failed == \/ user_response.kind # "response"
                       \/ user_response.status # 200
                       \/ other.data.expires_in = None
                       \/ (found = {} /\ ~AccountValid(other.data))
         IN  /\ accounts' =
                    IF failed THEN accounts
                    ELSE IF found = {}
                    THEN Append(accounts, NewAccount(Len(accounts) + 1, twitter_id,
                                                     username, other.data, now))
                    ELSE LET id == CHOOSE i \in found : TRUE IN
                         Save(accounts,
                              Reauthorize(accounts[id], username, other.data, now))
             /\ oauth_states' = IF failed THEN oauth_states
                                 ELSE DeleteState(oauth_states, other.state)
             /\ consumed' = IF failed THEN consumed
                             ELSE consumed \cup
                                    {rec \in oauth_states : rec.state = other.state}
             /\ last' = [NoLast EXCEPT
                            !.op = "callback",
                            !.result = IF failed THEN "failed" ELSE "ok",
                            !.state = other.state, !.exchanged = TRUE,
                            !.used = \E rec \in consumed : rec.state = other.state,
                            !.token = "ok", !.twitter_id = twitter_id]
    /\ other' = IdleOther
    /\ UNCHANGED <<now, messages, issued, task, cb, cycle, prevFetch>>

----------------------------------------------------------------------------
\* The scheduler over two tracked accounts: poll cycles, pausing and resuming,
\* and the clock.  The first tokens expire RefreshMarginMinutes after the start.

FirstTokenData == [access_token |-> 1, refresh_token |-> 1, expires_in |-> 5]

PollTokenResponses ==
    {r \in TokenResponses : r.data.refresh_token \in {None, r.data.access_token}}

PollMentionResponses ==
    {r \in MentionResponses : r.kind = "http" /\ r.page = <<>>}

PollTick == Tick(PollTickSteps, MaxPollTime)

Init ==
    /\ now = 0
    /\ accounts = <<SyncedAccount(1, 1, FirstTokenData, 0), SyncedAccount(2, 2, FirstTokenData, 0)>>
    /\ messages = <<>>
    /\ oauth_states = {}
    /\ issued = 0
    /\ task = IdleTask
    /\ cb = IdleCallback
    /\ other = IdleOther
    /\ cycle = NoCycle
    /\ prevFetch = NoFetch
    /\ consumed = {}
    /\ last = NoLast

Next ==
    \/ PollStart
    \/ PollRefresh(PollTokenResponses)
    \/ FetchVerify(VerifyOutcomes)
    \/ FetchRefresh(PollTokenResponses)
    \/ FetchGet(PollMentionResponses)
    \/ UpdateAccountStatus(PauseUpdates)
    \/ PollTick

Spec == Init /\ [][Next]_vars

\* The same with every answer of the token endpoint well formed.
WellFormedTokenResponses ==
    {r \in PollTokenResponses :
        r.status = 200 => (r.data.access_token # None /\ r.data.expires_in # None)}

NextPoll ==
    \/ PollStart
    \/ PollRefresh(WellFormedTokenResponses)
    \/ FetchVerify(VerifyOutcomes)
    \/ FetchRefresh(WellFormedTokenResponses)
    \/ FetchGet(PollMentionResponses)
    \/ UpdateAccountStatus(PauseUpdates)
    \/ PollTick

SpecPoll == Init /\ [][NextPoll]_vars

\* Poll cycles and refresh sweeps, one after another, as the clock advances.
NextRetry ==
    \/ PollStart
    \/ PollRefresh(WellFormedTokenResponses)
    \/ FetchVerify(VerifyOutcomes)
    \/ FetchRefresh(WellFormedTokenResponses)
    \/ FetchGet(PollMentionResponses)
    \/ SweepStart
    \/ SweepRefresh(WellFormedTokenResponses)
    \/ PollTick

SpecRetry == Init /\ [][NextRetry]_vars

\* Poll cycles with pauses and resumptions arriving at any moment.
NextPause ==
    \/ PollStart
    \/ PollRefresh(WellFormedTokenResponses)
    \/ FetchVerify(VerifyOutcomes)
    \/ FetchRefresh(WellFormedTokenResponses)
    \/ FetchGet(PollMentionResponses)
    \/ UpdateAccountStatus(PauseUpdates)
    \/ UpdateAccountStatusMidTask(PauseUpdates)

SpecPause == Init /\ [][NextPause]_vars

\* Poll cycles during which the database may stop accepting writes.
NextOutage ==
    \/ PollStart
    \/ PollRefresh(WellFormedTokenResponses)
    \/ FetchVerify(VerifyOutcomes)
    \/ FetchRefresh(WellFormedTokenResponses)
    \/ FetchGet(PollMentionResponses)
    \/ PollSaveRaises(PollMentionResponses)
    \/ PollTick

SpecOutage == Init /\ [][NextOutage]_vars

LongTokenData == [access_token |-> 1, refresh_token |-> 1, expires_in |-> 10]

\* Poll cycles between administrative updates of any kind.
NextAdmin ==
    \/ PollStart
    \/ PollRefresh(WellFormedTokenResponses)
    \/ FetchVerify(VerifyOutcomes)
    \/ FetchRefresh(WellFormedTokenResponses)
    \/ FetchGet(PollMentionResponses)
    \/ UpdateAccountStatus(StatusUpdates)

SpecAdmin == Init /\ [][NextAdmin]_vars

FetchTokenResponses == {r \in TokenResponses : r.status = 400}

\* Poll cycles over three tracked accounts whose tokens outlive the clock: the
\* refresh requests are refused, the live check and the mentions request fail
\* or succeed.
InitThree ==
    /\ now = 0
    /\ accounts = <<SyncedAccount(1, 1, LongTokenData, 0),
                    SyncedAccount(2, 2, LongTokenData, 0),
                    SyncedAccount(3, 3, LongTokenData, 0)>>
    /\ messages = <<>>
    /\ oauth_states = {}
    /\ issued = 0
    /\ task = IdleTask
    /\ cb = IdleCallback
    /\ other = IdleOther
    /\ cycle = NoCycle
    /\ prevFetch = NoFetch
    /\ consumed = {}
    /\ last = NoLast

NextThree ==
    \/ PollStart
    \/ PollRefresh(FetchTokenResponses)
    \/ FetchVerify(VerifyOutcomes)
    \/ FetchRefresh(FetchTokenResponses)
    \/ FetchGet(PollMentionResponses)
    \/ PollTick

SpecThree == InitThree /\ [][NextThree]_vars

\* Refresh sweeps over an account whose token ends in five minutes and one
\* whose token ends in two hours, pausing and resuming, and the clock.
FarTokenData == [access_token |-> 1, refresh_token |-> 1, expires_in |-> 120]

InitSweep ==
    /\ now = 0
    /\ accounts = <<SyncedAccount(1, 1, FirstTokenData, 0),
                    SyncedAccount(2, 2, FarTokenData, 0)>>
    /\ messages = <<>>
    /\ oauth_states = {}
    /\ issued = 0
    /\ task = IdleTask
    /\ cb = IdleCallback
    /\ other = IdleOther
    /\ cycle = NoCycle
    /\ prevFetch = NoFetch
    /\ consumed = {}
    /\ last = NoLast

NextSweep ==
    \/ SweepStart
    \/ SweepRefresh(PollTokenResponses)
    \/ UpdateAccountStatus(PauseUpdates)
    \/ PollTick

SpecSweep == InitSweep /\ [][NextSweep]_vars

----------------------------------------------------------------------------
\* Fetch cycles one after another, scheduled and manual, over two tracked
\* accounts whose mention pages overlap.  The tokens stay valid; a failed live
\* check leads to a failed refresh.

FetchMentionResponses == {r \in MentionResponses : r.status \in {200, 500}}

InitFetch ==
    /\ now = 0
    /\ accounts = <<SyncedAccount(1, 1, LongTokenData, 0), SyncedAccount(2, 2, LongTokenData, 0)>>
    /\ messages = <<>>
    /\ oauth_states = {}
    /\ issued = 0
    /\ task = IdleTask
    /\ cb = IdleCallback
    /\ other = IdleOther
    /\ cycle = NoCycle
    /\ prevFetch = NoFetch
    /\ consumed = {}
    /\ last = NoLast

NextFetch ==
    \/ PollStart
    \/ PollRefresh(FetchTokenResponses)
    \/ FetchVerify(VerifyOutcomes)
    \/ FetchRefresh(FetchTokenResponses)
    \/ FetchGet(FetchMentionResponses)
    \/ FetchNewMessages

SpecFetch == InitFetch /\ [][NextFetch]_vars

\* Manual fetches of accounts whose tokens verify, between changes of a
\* message's status.
NextRepeat ==
    \/ FetchNewMessages
    \/ FetchVerify({"ok"})
    \/ FetchGet(FetchMentionResponses)
    \/ UpdateMessage

SpecRepeat == InitFetch /\ [][NextRepeat]_vars

\* Manual fetches over pages that may hold a mention the loop of
\* fetch_mentions fails on.
NextBroken ==
    \/ FetchNewMessages
    \/ FetchVerify({"ok"})
    \/ FetchGet(FetchMentionResponses)
    \/ FetchGetBroken(FetchMentionResponses)

SpecBroken == InitFetch /\ [][NextBroken]_vars

\* A poll cycle or a manual fetch with a second manual fetch running beside it,
\* over one tracked account.
InitOverlap ==
    /\ now = 0
    /\ accounts = <<SyncedAccount(1, 1, LongTokenData, 0)>>
    /\ messages = <<>>
    /\ oauth_states = {}
    /\ issued = 0
    /\ task = IdleTask
    /\ cb = IdleCallback
    /\ other = IdleOther
    /\ cycle = NoCycle
    /\ prevFetch = NoFetch
    /\ consumed = {}
    /\ last = NoLast

NextOverlap ==
    \/ PollStart
    \/ PollRefresh(FetchTokenResponses)
    \/ FetchNewMessages
    \/ FetchVerify({"ok"})
    \/ FetchGet(FetchMentionResponses)
    \/ OtherFetchStart
    \/ OtherFetchGet(FetchMentionResponses)
    \/ OtherFetchFind
    \/ OtherFetchInsert
    \/ OtherFetchSave

SpecOverlap == InitOverlap /\ [][NextOverlap]_vars

\* Manual fetches between pauses and resumptions of the accounts.
NextManual ==
    \/ FetchNewMessages
    \/ FetchVerify(VerifyOutcomes)
    \/ FetchRefresh(FetchTokenResponses)
    \/ FetchGet(FetchMentionResponses)
    \/ UpdateAccountStatus(PauseUpdates)

SpecManual == InitFetch /\ [][NextManual]_vars

----------------------------------------------------------------------------
\* The OAuth handshake from an empty database.

AuthTickSteps == {5, 6}

AuthTokenResponses ==
    {r \in TokenResponses : r.data.refresh_token \in {None, r.data.access_token}}

AuthUsernames == {1}

AuthTick == Tick(AuthTickSteps, MaxTime)

InitAuth ==
    /\ now = 0
    /\ accounts = <<>>
    /\ messages = <<>>
    /\ oauth_states = {}
    /\ issued = 0
    /\ task = IdleTask
    /\ cb = IdleCallback
    /\ other = IdleOther
    /\ cycle = NoCycle
    /\ prevFetch = NoFetch
    /\ consumed = {}
    /\ last = NoLast

NextAuth ==
    \/ TwitterAuthorize
    \/ CallbackStart
    \/ CallbackExchange(AuthTokenResponses)
    \/ CallbackUserInfo(AuthUsernames)
    \/ AuthTick

SpecAuth == InitAuth /\ [][NextAuth]_vars

\* The handshake with the clock running and every callback that was started
\* running to its end (a request handler is not abandoned half way).  Nothing
\* obliges a user to ask for an authorization URL or to come back with a state.
SpecAuthLive ==
    /\ InitAuth /\ [][NextAuth]_vars
    /\ WF_vars(AuthTick)
    /\ WF_vars(CallbackExchange(AuthTokenResponses))
    /\ WF_vars(CallbackUserInfo(AuthUsernames))

\* Two callbacks at a time, from an empty database.
NextTwoCallbacks ==
    \/ TwitterAuthorize
    \/ CallbackStart
    \/ CallbackExchange(AuthTokenResponses)
    \/ CallbackUserInfo(AuthUsernames)
    \/ OtherCallbackStart
    \/ OtherCallbackExchange(AuthTokenResponses)
    \/ OtherCallbackUserInfo(AuthUsernames)

SpecTwoCallbacks == InitAuth /\ [][NextTwoCallbacks]_vars

----------------------------------------------------------------------------
\* Reauthorization: the handshake over a database that holds one account, which
\* has one stored mention and whose last poll failed on its token.

FailedAccount(id, twitter_id, token_data, t) ==
    [PollExcept(SyncedAccount(id, twitter_id, token_data, t), RefreshFailedError).account
        EXCEPT !.total_mentions_tracked = 1]

InitReauth ==
    /\ now = 0
    /\ accounts = <<FailedAccount(1, 1, FirstTokenData, 0)>>
    /\ messages = <<NewMessage(1, accounts[1])>>
    /\ oauth_states = {}
    /\ issued = 0
    /\ task = IdleTask
    /\ cb = IdleCallback
    /\ other = IdleOther
    /\ cycle = NoCycle
    /\ prevFetch = NoFetch
    /\ consumed = {}
    /\ last = NoLast

NextReauth ==
    \/ TwitterAuthorize
    \/ CallbackStart
    \/ CallbackExchange(AuthTokenResponses)
    \/ CallbackUserInfo(Usernames)

SpecReauth == InitReauth /\ [][NextReauth]_vars

----------------------------------------------------------------------------
\* Properties

PageIds(page) == {page[i] : i \in 1..Len(page)}

StoredIds(msgs) == {msgs[k].tweet_id : k \in 1..Len(msgs)}

\* C1: an account that is inactive when a poll cycle starts receives no
\* verify_token, refresh_token or fetch_mentions call in that cycle, and no step
\* of the cycle changes its stored document.
C1_InactiveUntouched ==
    [][/\ cycle'.kind = "poll" => cycle'.inactive \cap cycle'.touched = {}
       /\ task.kind = "poll" =>
            \A id \in cycle.inactive : accounts'[id] = accounts[id]]_vars

\* A poll cycle has ended that processed an account while another was inactive.
C1_Witness ==
    /\ cycle.kind = "poll" /\ task.kind = "idle"
    /\ cycle.inactive # {} /\ cycle.touched # {}

\* C2: no two stored mentions have the same tweet_id, whatever fetch cycles
\* (scheduled or manual, any account, any page) have run one after another.
C2_UniqueTweetIds ==
    \A i, j \in 1..Len(messages) :
        i # j => messages[i].tweet_id # messages[j].tweet_id

\* A fetch stored one mention from a page that held the same id twice, next to
\* a mention of the other account.
C2_Witness ==
    /\ last.fetch = "ok"
    /\ Len(last.page) = 2 /\ last.page[1] = last.page[2] /\ Len(last.new) = 1
    /\ Len(messages) = 2 /\ messages[1].account_id # messages[2].account_id

\* C3: a fetch_mentions call that follows, for the same account and with the
\* same page, a call that returned, returns an empty list, leaves the messages
\* collection as it was and leaves total_mentions_tracked as it was.
C3_SecondFetchIdempotent ==
    [][(last'.fetch = "ok" /\ last'.repeat) =>
          /\ last'.new = <<>>
          /\ messages' = messages
          /\ accounts'[last'.id].total_mentions_tracked
                = accounts[last'.id].total_mentions_tracked]_vars

\* The second of two fetches of a page, one mention of which has been replied to.
C3_Witness ==
    /\ last.fetch = "ok" /\ last.repeat /\ last.page # <<>>
    /\ \E k \in 1..Len(messages) :
          messages[k].tweet_id \in PageIds(last.page) /\ messages[k].status = "replied"

\* C4: a fetch_mentions call that returns adds to total_mentions_tracked the
\* length of the list it returns, which is the number of mentions it inserted:
\* the ids of the page that were not stored, each once.
C4_CounterCountsInserted ==
    [][last'.fetch = "ok" =>
          /\ accounts'[last'.id].total_mentions_tracked
                = accounts[last'.id].total_mentions_tracked + Len(last'.new)
          /\ Len(messages') = Len(messages) + Len(last'.new)
          /\ PageIds(last'.new) = PageIds(last'.page) \ StoredIds(messages)
          /\ Cardinality(PageIds(last'.new)) = Len(last'.new)
          /\ StoredIds(messages') = StoredIds(messages) \cup PageIds(last'.page)]_vars

\* A fetch of a page with a stored and a new mention brought the counter to two.
C4_Witness ==
    /\ last.fetch = "ok" /\ Len(last.page) = 2 /\ Len(last.new) = 1
    /\ accounts[last.id].total_mentions_tracked = 2

\* C5: a refresh_token call that returns False leaves access token, refresh
\* token and expiry as they were, in the stored document and in the document
\* object of the caller.
C5_FailedRefreshKeepsTokens ==
    last.refresh = "failed" => (last.memSame /\ last.dbSame)

\* C6: when the fetch of an account that is not the last of a poll cycle fails
\* with the rate-limit signal, the cycle is over, the account is rate_limited
\* with a message of at most 500 characters, and no later account of the cycle
\* received a call or a write.
C6_RateLimitStopsCycle ==
    (cycle.kind = "poll" /\ last.iter = "rate_limited" /\ last.pos < Len(cycle.order)) =>
        /\ task.kind = "idle"
        /\ accounts[last.id].sync_status = "rate_limited"
        /\ accounts[last.id].error_message \in 1..ErrorMessageCap
        /\ \A j \in (last.pos + 1)..Len(cycle.order) :
              cycle.order[j] \notin cycle.touched

\* The first of two accounts was rate limited, its message cut to the cap.
C6_Witness ==
    /\ cycle.kind = "poll" /\ last.iter = "rate_limited"
    /\ last.pos = 1 /\ Len(cycle.order) = 2
    /\ accounts[last.id].error_message = ErrorMessageCap

\* C7: when the refresh of an account's expired token fails in a poll cycle,
\* the account ends the cycle's pass as token_expired and the mentions endpoint
\* was not called for it.
C7_ExpiredRefreshFailure ==
    (cycle.kind = "poll" /\ last.op = "iter" /\ last.refFail) =>
        (accounts[last.id].sync_status = "token_expired" /\ ~last.got)

\* C8: a callback whose state has a record ten minutes old or older is rejected
\* as invalid before the token request, and no account is created or changed.
C8_StaleStateRejected ==
    [][(last'.op = "callback" /\ last'.stale) =>
          /\ last'.result = "invalid_state"
          /\ ~last'.exchanged
          /\ cb'.pc = "idle"
          /\ accounts' = accounts]_vars

\* A callback came eleven minutes after its state was issued, an account existing.
C8_Witness ==
    /\ last.op = "callback" /\ last.stale /\ last.result = "invalid_state"
    /\ \E rec \in oauth_states : rec.state = last.state /\ now - rec.created_at = 11
    /\ accounts # <<>>

\* C9: a callback that succeeds for a twitter_id no account has creates exactly
\* one account: active, tracked, with no mention counted, and with the tokens and
\* the expiry (now + expires_in) of the token response.
C9_NewAccountCreated ==
    [][(last'.op = "callback" /\ last'.result = "ok" /\ last'.unseen) =>
          /\ Len(accounts') = Len(accounts) + 1
          /\ \A i \in 1..Len(accounts) : accounts'[i] = accounts[i]
          /\ Cardinality({i \in 1..Len(accounts') :
                            accounts'[i].twitter_id = last'.twitter_id}) = 1
          /\ LET a == accounts'[Len(accounts')] IN
               /\ a.twitter_id = last'.twitter_id
               /\ a.sync_status = "active" /\ a.is_active
               /\ a.error_message = None
               /\ a.total_mentions_tracked = 0
               /\ a.access_token = last'.data.access_token
               /\ a.refresh_token = last'.data.refresh_token
               /\ a.token_expires_at = now + last'.data.expires_in]_vars

\* A callback created the second account.
C9_Witness ==
    /\ last.op = "callback" /\ last.result = "ok" /\ last.unseen
    /\ Len(accounts) = 2

\* C10: once a callback with a state has succeeded, no record of the state is
\* stored, and a later callback with it is rejected as invalid.
C10_StateSingleUse ==
    /\ \A used \in consumed : \A rec \in oauth_states : rec.state # used.state
    /\ (last.op = "callback" /\ last.used) => last.result = "invalid_state"

\* A consumed state came back inside its ten minutes and was rejected.
C10_Witness ==
    /\ last.op = "callback" /\ last.used /\ last.result = "invalid_state"
    /\ \E used \in consumed :
          used.state = last.state /\ now - used.created_at < StateWindowMinutes

\* C12: when the fetch of an account succeeds in a poll cycle, with or without
\* new mentions, the stored account has last_synced_at = now, sync_status active
\* and no error_message, whatever it had before.
C12_SuccessRecorded ==
    [][(cycle'.kind = "poll" /\ last'.iter = "ok") =>
          /\ accounts'[last'.id].last_synced_at = now
          /\ accounts'[last'.id].sync_status = "active"
          /\ accounts'[last'.id].error_message = None]_vars

\* A poll at minute 5 succeeded for an account stored as error, synced last at 0.
C12_Witness ==
    /\ cycle.kind = "poll" /\ last.iter = "ok" /\ last.was = "error"
    /\ now = 5 /\ accounts[last.id].last_synced_at = 5

\* C13: when the fetch of an account fails in a poll cycle without the
\* rate-limit signal, the account is stored as error with a message of at most
\* 500 characters and its last_synced_at as it was, and the loop goes on with the
\* next account: at the end of the cycle every later account has had its fetch
\* attempt, unless an account between them was rate limited.
C13_ErrorIsolated ==
    [][/\ (cycle'.kind = "poll" /\ last'.iter = "error") =>
            /\ accounts'[last'.id].sync_status = "error"
            /\ accounts'[last'.id].error_message \in 1..ErrorMessageCap
            /\ accounts'[last'.id].last_synced_at = accounts[last'.id].last_synced_at
            /\ last'.pos < Len(cycle'.order) =>
                  /\ task'.kind = "poll" /\ task'.idx = last'.pos + 1
                  /\ Head(task'.accts).id = cycle'.order[last'.pos + 1]
       /\ (cycle'.kind = "poll" /\ task'.kind = "idle") =>
            \A i, j \in 1..Len(cycle'.order) :
                (/\ i < j
                 /\ cycle'.order[i] \in cycle'.touched
                 /\ accounts'[cycle'.order[i]].sync_status = "error") =>
                    \/ cycle'.order[j] \in cycle'.touched
                    \/ \E k \in (i + 1)..(j - 1) :
                          accounts'[cycle'.order[k]].sync_status = "rate_limited"]_vars

\* A cycle at minute 5 ended with the third account fetched, the first one
\* stored as error with a message cut to the cap and synced last at 0.
C13_Witness ==
    /\ cycle.kind = "poll" /\ task.kind = "idle" /\ Len(cycle.order) = 3
    /\ accounts[cycle.order[1]].sync_status = "error"
    /\ accounts[cycle.order[1]].error_message = ErrorMessageCap
    /\ accounts[cycle.order[1]].last_synced_at = 0
    /\ now = 5 /\ last.iter = "ok" /\ last.id = cycle.order[3]

\* C13 as stated: at the end of a poll cycle, every account ordered after one
\* whose fetch failed as error has had its fetch attempt.
C13_AllLaterAccountsFetched ==
    (cycle.kind = "poll" /\ task.kind = "idle") =>
        \A i, j \in 1..Len(cycle.order) :
            (/\ i < j
             /\ cycle.order[i] \in cycle.touched
             /\ accounts[cycle.order[i]].sync_status = "error") =>
                cycle.order[j] \in cycle.touched

\* C14: in every reachable state an account whose sync_status is rate_limited
\* or error has an error_message, and not an empty one.
C14_ErrorHasMessage ==
    \A i \in 1..Len(accounts) :
        accounts[i].sync_status \in {"rate_limited", "error"} =>
            accounts[i].error_message \in 1..ErrorMessageCap

\* C15: when the token endpoint answers a refresh with a well-formed success,
\* refresh_token returns True and the stored account has the access token of
\* the answer, the refresh token of the answer or, the answer having none, the
\* refresh token it had, token_expires_at = now + expires_in, sync_status active
\* and no error_message.
C15_RefreshSuccess ==
    [][(/\ last'.op = "refresh"
        /\ last'.data.access_token # None /\ last'.data.expires_in # None) =>
          /\ last'.refresh = "ok"
          /\ accounts'[last'.id].access_token = last'.data.access_token
          /\ accounts'[last'.id].refresh_token =
                IF last'.data.refresh_token = None
                THEN accounts[last'.id].refresh_token
                ELSE last'.data.refresh_token
          /\ accounts'[last'.id].token_expires_at = now + last'.data.expires_in
          /\ accounts'[last'.id].sync_status = "active"
          /\ accounts'[last'.id].error_message = None]_vars

\* At minute 5 a refresh answered without a refresh token succeeded for an
\* account stored as error: new access token, the refresh token it had.
C15_Witness ==
    /\ last.op = "refresh" /\ last.refresh = "ok" /\ last.was = "error"
    /\ last.data.refresh_token = None /\ now = 5
    /\ accounts[last.id].access_token = 2 /\ accounts[last.id].refresh_token = 1
    /\ accounts[last.id].token_expires_at = 15

\* C19: when the refresh of the sweep fails for an account whose token has not
\* expired yet, the account is not stored as token_expired.
C19_UnexpiredNotMarked ==
    (last.op = "sweep" /\ last.refresh = "failed" /\ ~last.expired) =>
        accounts[last.id].sync_status # "token_expired"

\* C16: verify_token returns False without asking Twitter once the stored
\* expiry is reached; otherwise it asks, and returns True exactly when the
\* answer is 200; a request that fails to answer gives False, not an exception.
C16_VerifyToken ==
    last.op = "verify" =>
      /\ ~last.raised
      /\ last.expired => (~last.valid /\ last.verify = "none")
      /\ ~last.expired => (last.verify \in VerifyOutcomes
                            /\ last.valid = (last.verify = "ok"))

\* A request that failed to answer, reported as an invalid token.
C16_Witness ==
    /\ last.op = "verify" /\ ~last.expired
    /\ last.verify = "net_error" /\ ~last.valid /\ ~last.raised
    /\ task.pc = "fetch_refresh"

\* C11: a callback whose token exchange succeeded leaves no record of its state
\* behind when it ends, whatever the later steps of the callback do.
C11_ExchangedStateConsumed ==
    [][(cb.pc = "user_info" /\ cb'.pc = "idle")
          => \A rec \in oauth_states' : rec.state # cb.state]_vars

\* C20: every stored handshake record is eventually deleted, by the callback
\* that consumes it or after its window has passed; so a record whose window
\* has passed does not stay stored.
C20_StateEventuallyDestroyed ==
    \A s \in 1..NumStates :
        (\E rec \in oauth_states :
            rec.state = s /\ now - rec.created_at >= StateWindowMinutes)
            ~> (\A rec \in oauth_states : rec.state # s)

\* C17: no two accounts share a twitter_id, and a successful callback for a
\* twitter_id that is already stored adds no account: it overwrites that
\* account's tokens, expiry and username, makes it active with no error
\* message, and leaves its id, its mention counter and every other account.
C17_ReauthOverwrites ==
    [][/\ \A i, j \in 1..Len(accounts') :
             accounts'[i].twitter_id = accounts'[j].twitter_id => i = j
       /\ (last'.op = "callback" /\ last'.result = "ok" /\ ~last'.unseen) =>
             /\ Len(accounts') = Len(accounts)
             /\ last'.id \in 1..Len(accounts)
             /\ accounts[last'.id].twitter_id = last'.twitter_id
             /\ \A i \in 1..Len(accounts) : i # last'.id => accounts'[i] = accounts[i]
             /\ LET old == accounts[last'.id]
                    new == accounts'[last'.id]
                IN  /\ new.access_token = last'.data.access_token
                    /\ new.refresh_token = last'.data.refresh_token
                    /\ new.token_expires_at = now + last'.data.expires_in
                    /\ new.twitter_username = last'.username
                    /\ new.sync_status = "active"
                    /\ new.error_message = None
                    /\ new.id = old.id
                    /\ new.twitter_id = old.twitter_id
                    /\ new.total_mentions_tracked = old.total_mentions_tracked]_vars

\* The failed account reauthorized under a new username and new tokens, next
\* to an account that a callback created.
C17_Witness ==
    /\ last.op = "callback" /\ last.result = "ok" /\ ~last.unseen /\ last.id = 1
    /\ Len(accounts) = 2
    /\ accounts[1].twitter_username = 2
    /\ accounts[1].access_token = 2
    /\ accounts[1].sync_status = "active"
    /\ accounts[1].error_message = None
    /\ accounts[1].total_mentions_tracked = 1

\* C18: a pass of the poll loop that ends in a failure leaves the account
\* stored as error or rate_limited with a message, and a poll cycle stops
\* before its last account only on a rate-limit failure.
C18_FailureRecordedLoopGoesOn ==
    [][/\ (cycle'.kind = "poll" /\ last'.op = "iter" /\ last'.iter # "ok") =>
            /\ accounts'[last'.id].sync_status \in {"error", "rate_limited"}
            /\ accounts'[last'.id].error_message # None
       /\ (task.kind = "poll" /\ task'.kind = "idle" /\ task.idx < Len(cycle.order)) =>
            last'.iter = "rate_limited"]_vars

\* C21: a callback whose token request got no answer or an answer other than
\* 200 ends as a failed authentication, with the stored handshake records and
\* every account as they were, the record of its state among them.
C21_ExchangeFailureLeavesAll ==
    [][(last'.op = "callback" /\ last'.token \in {"net_error", "refused"}) =>
          /\ last'.result = "failed"
          /\ cb'.pc = "idle"
          /\ oauth_states' = oauth_states
          /\ \E rec \in oauth_states' : rec.state = last'.state
          /\ accounts' = accounts]_vars

\* A refused token request next to an account that an earlier callback stored.
C21_Witness ==
    /\ last.op = "callback" /\ last.token = "refused" /\ last.result = "failed"
    /\ \E rec \in oauth_states : rec.state = last.state
    /\ Len(accounts) = 1

\* C30: get_user_info_with_retry sends at most MaxRetries requests and ends by
\* returning a response or by raising; it never returns without a response.
C30_RetryReturnsResponse ==
    (last.op = "callback" /\ last.user # "none") =>
        /\ last.requests \in 1..MaxRetries
        /\ last.user \in {"response", "raise"}

\* C24: an account that is inactive when fetch_new_messages is called, with or
\* without an account_id, receives no verify_token, refresh_token or
\* fetch_mentions call from that request.
C24_ManualSkipsInactive ==
    cycle.kind \in {"manual_one", "manual_all"} =>
        cycle.inactive \cap cycle.touched = {}

\* C25: every stored account has an access token, a refresh token and a token
\* expiry, whatever callbacks ran and whatever the token endpoint answered.
C25_CredentialsPresent ==
    \A i \in 1..Len(accounts) :
        /\ accounts[i].access_token # None
        /\ accounts[i].refresh_token # None
        /\ accounts[i].token_expires_at # None

\* C28: an account stored as inactive and paused stays so under every write of
\* a running poll cycle or refresh sweep, which read its document earlier.
C28_PauseSurvivesCycle ==
    [][(task.kind \in {"poll", "sweep"} /\ task' # task) =>
          \A id \in 1..Len(accounts) :
              (~accounts[id].is_active /\ accounts[id].sync_status = "paused") =>
                  (~accounts'[id].is_active /\ accounts'[id].sync_status = "paused")]_vars

FailedStatuses == {"error", "rate_limited", "token_expired"}

\* C27: a poll cycle selects every active account, also one stored as error,
\* rate_limited or token_expired by an earlier cycle or sweep; and when the
\* fetch of such an account succeeds in the cycle, the account is stored as
\* active with no error message.
C27_FailedAccountRetried ==
    [][/\ (task.kind = "idle" /\ cycle'.kind = "poll") =>
            \A id \in 1..Len(accounts) :
                (accounts[id].is_active /\ accounts[id].sync_status \in FailedStatuses) =>
                    \E k \in 1..Len(cycle'.order) : cycle'.order[k] = id
       /\ (cycle'.kind = "poll" /\ last'.op = "iter" /\ last'.iter = "ok"
              /\ last'.was \in FailedStatuses) =>
            /\ accounts'[last'.id].sync_status = "active"
            /\ accounts'[last'.id].error_message = None]_vars

\* An account that a sweep stored as token_expired, fetched with success by the
\* poll cycle that followed.
C27_Witness ==
    /\ cycle.kind = "poll" /\ last.op = "iter" /\ last.iter = "ok"
    /\ last.was = "token_expired"
    /\ accounts[last.id].sync_status = "active"
    /\ accounts[last.id].error_message = None

\* C23: a fetch_mentions call that fails (no answer, an answer other than 200,
\* or a mention of the page the loop fails on) raises the fetch error and
\* leaves total_mentions_tracked as it was, while the mentions it inserted
\* before failing stay stored; and a fetch of the same page that then succeeds
\* inserts the mentions still missing, each once, and no stored one again.
C23_FailedFetchKeepsCounter ==
    [][/\ (last'.op = "iter" /\ last'.fetch = "raised") =>
            /\ last'.len >= FetchPrefixLen
            /\ accounts'[last'.id].total_mentions_tracked
                  = accounts[last'.id].total_mentions_tracked
            /\ Len(messages') = Len(messages) + Len(last'.new)
            /\ SubSeq(messages', 1, Len(messages)) = messages
            /\ \A k \in 1..Len(last'.new) :
                  messages'[Len(messages) + k].tweet_id = last'.new[k]
       /\ (last'.op = "iter" /\ last'.fetch = "ok" /\ last'.retry) =>
            /\ \A k \in 1..Len(last'.new) : last'.new[k] \notin StoredIds(messages)
            /\ PageIds(last'.page) \subseteq StoredIds(messages')
            /\ Len(messages') = Len(messages) + Len(last'.new)
            /\ \A i, j \in 1..Len(messages') :
                  messages'[i].tweet_id = messages'[j].tweet_id => i = j]_vars

\* A page of two mentions fetched with success after the fetch before it had
\* stored the first mention and failed on the second.
C23_Witness ==
    /\ last.op = "iter" /\ last.fetch = "ok" /\ last.retry
    /\ Len(last.page) = 2 /\ Len(last.new) = 1
    /\ Len(messages) = 2
    /\ accounts[last.id].total_mentions_tracked = 1

\* C22: no step lowers the stored total_mentions_tracked of an account.
C22_CounterNeverDecreases ==
    [][\A id \in 1..Len(accounts) :
          accounts'[id].total_mentions_tracked
              >= accounts[id].total_mentions_tracked]_vars

\* C26: the messages collection never holds two documents with the same
\* tweet_id (here: stored for the same account), also when two fetches of the
\* account run at the same time.
C26_UniqueUnderOverlap ==
    \A i, j \in 1..Len(messages) :
        (/\ messages[i].tweet_id = messages[j].tweet_id
         /\ messages[i].account_id = messages[j].account_id) => i = j

\* C29: a callback that completes with success finds the record of its state
\* still stored: of two callbacks with the same state running at the same time
\* at most one succeeds.
C29_OneCallbackPerState ==
    [][(/\ \/ (cb.pc = "user_info" /\ cb'.pc = "idle")
           \/ (other.kind = "callback" /\ other.pc = "user_info" /\ other'.kind = "idle")
        /\ last'.op = "callback" /\ last'.result = "ok") =>
          \E rec \in oauth_states : rec.state = last'.state]_vars

====
